---- MODULE Spec2Model ----
(***************************************************************************)
(* Model of the constraint-propagation Sudoku solver (class Possible,      *)
(* class Sudoku, solve and the timing driver main).                        *)
(***************************************************************************)
EXTENDS Integers, Sequences, FiniteSets, TLC

VARIABLES
    _group,       \* static vector<vector<int>> Sudoku::_group
    _neighbors,   \* static vector<vector<int>> Sudoku::_neighbors
    _groups_of,   \* static vector<vector<int>> Sudoku::_groups_of
    pc,           \* position of main
    line,         \* main's `line`, the puzzle string last read
    loop,         \* main's `loop` counter
    heap,         \* the Sudoku objects alive: object id -> _cells
    stack,        \* the activation records of solve, innermost last
    S,            \* main's `S`, the pointer solve returned
    cerr,         \* what the last Sudoku(string) call of main wrote to cerr
    board,        \* a Sudoku object under propagation, call by call
    call,         \* the member function last called on board, with _cells before
    ncalls        \* number of assign/eliminate calls made on board

topology == <<_group, _neighbors, _groups_of>>

mainv == <<pc, line, loop, heap, stack, S, cerr>>

propv == <<board, call, ncalls>>

vars == <<_group, _neighbors, _groups_of, pc, line, loop, heap, stack, S, cerr,
          board, call, ncalls>>

----------------------------------------------------------------------------
(* Bounds of the model *)

\* number of cells of the base grid a puzzle line may vary
MaxVar == 1

\* largest given digit a varied cell may carry
MaxDigit == 1

\* number of assign/eliminate calls a client makes on a constructed object
MaxCalls == 1

\* a call is run for up to 2^StepsLog steps
StepsLog == 16

\* a scan of the cells is run for up to 2^ScanLog iterations (81 are needed)
ScanLog == 7

\* either loop nest of init is run for up to 2^InitLog iterations
InitLog == 13

----------------------------------------------------------------------------
(* Program constants *)

NumDigits == 9
NumCells == 81
NumGroups == 27
NumRuns == 10

Digits == 1..NumDigits
Cells == 0..(NumCells - 1)
NULL == 0
NONE == -1

----------------------------------------------------------------------------
(* class Possible: a vector<bool> of 9 flags, kept as the set of digits on *)

Possible == Digits

is_on(p, i) == i \in p

count(p) == Cardinality(p)

\* an eliminate that leaves the flag as it was
Possible_eliminate_keeps(p, i) == p

Possible_eliminate(p, i) == p \ {i}

val(p) == IF p # {} THEN CHOOSE i \in p : \A j \in p : i <= j ELSE NONE

----------------------------------------------------------------------------
(* Sudoku::init: fills the three static tables by push_back *)

GroupsOfCell(k) ==
    LET i == k \div 9
        j == k % 9
    IN  <<i, 9 + j, 18 + (i \div 3) * 3 + j \div 3>>

\* one push_back pair of the first loop nest (lines 85-94): cell k, g-th group
init_groups_step(st) ==
    LET x == GroupsOfCell(st.k)[st.g + 1]
    IN  [k |-> IF st.g = 2 THEN st.k + 1 ELSE st.k,
         g |-> IF st.g = 2 THEN 0 ELSE st.g + 1,
         group |-> [st.group EXCEPT ![x] = Append(@, st.k)],
         groups_of |-> [st.groups_of EXCEPT ![st.k] = Append(@, x)]]

RECURSIVE init_groups_loop(_, _)
init_groups_loop(st, n) ==
    IF st.k >= NumCells THEN st
    ELSE IF n = 0 THEN init_groups_step(st)
    ELSE LET half == init_groups_loop(st, n - 1)
         IN  IF half.k >= NumCells THEN half ELSE init_groups_loop(half, n - 1)

\* one iteration of the second loop nest (lines 95-102) over k, x, j
init_peers_step(g, go, st) ==
    IF st.x >= Len(go[st.k])
    THEN [st EXCEPT !.k = @ + 1, !.x = 0, !.j = 0]
    ELSE IF st.j >= 9
    THEN [st EXCEPT !.x = @ + 1, !.j = 0]
    ELSE LET k2 == g[go[st.k][st.x + 1]][st.j + 1]
         IN  IF k2 # st.k
             THEN [st EXCEPT !.j = @ + 1, !.neighbors[st.k] = Append(@, k2)]
             ELSE [st EXCEPT !.j = @ + 1]

RECURSIVE init_peers_loop(_, _, _, _)
init_peers_loop(g, go, st, n) ==
    IF st.k >= NumCells THEN st
    ELSE IF n = 0 THEN init_peers_step(g, go, st)
    ELSE LET half == init_peers_loop(g, go, st, n - 1)
         IN  IF half.k >= NumCells THEN half
             ELSE init_peers_loop(g, go, half, n - 1)

init(g, nb, go) ==
    LET st == init_groups_loop([k |-> 0, g |-> 0, group |-> g, groups_of |-> go],
                               InitLog)
        pt == init_peers_loop(st.group, st.groups_of,
                              [k |-> 0, x |-> 0, j |-> 0, neighbors |-> nb],
                              InitLog)
    IN  [group |-> st.group, groups_of |-> st.groups_of,
         neighbors |-> pt.neighbors]

----------------------------------------------------------------------------
(* Puzzle strings: characters are one-character strings *)

DigitChars == <<"1", "2", "3", "4", "5", "6", "7", "8", "9">>

IsDigitChar(ch) == \E d \in Digits : DigitChars[d] = ch

\* s[i] - '0' for a character '1'..'9'
CharValue(ch) == CHOOSE d \in Digits : DigitChars[d] = ch

----------------------------------------------------------------------------
(* Sudoku::Sudoku(string), Sudoku::assign and Sudoku::eliminate, run on a   *)
(* machine: the object's _cells, the chain of calls in progress (innermost  *)
(* last) and what the outermost call returned.  One Step is one iteration   *)
(* of the innermost call's current loop.                                    *)

\* _cells(81): every Possible default-constructed with all 9 digits on
FreshCells == [k \in Cells |-> Possible]

\* a call of fn(k, v) about to run, its loop variable at i
Fr(fn, k, v, i) == [fn |-> fn, k |-> k, v |-> v, i |-> i, at |-> "entry", w |-> 0]

Machine(c, s, calls) ==
    [cells |-> c, s |-> s, calls |-> calls, ret |-> TRUE, cerr |-> "", oob |-> FALSE]

Done(mc) == mc.calls = <<>>

TopCall(mc) == mc.calls[Len(mc.calls)]

SetTopCall(mc, f) == [mc EXCEPT !.calls[Len(mc.calls)] = f]

\* the innermost call goes on after a callee returned true: the `i++` of
\* lines 106, 124, 128 and, in the constructor, `k++` (line 169) and `i++`
Resume(mc) ==
    LET f == TopCall(mc)
    IN  SetTopCall(mc, IF f.fn = "Sudoku"
                       THEN [f EXCEPT !.i = @ + 1, !.k = @ + 1]
                       ELSE [f EXCEPT !.i = @ + 1])

\* the innermost call returns true
ReturnTrue(mc) ==
    LET rest == SubSeq(mc.calls, 1, Len(mc.calls) - 1)
        popped == [mc EXCEPT !.calls = rest, !.ret = TRUE]
    IN  IF rest = <<>> THEN popped ELSE Resume(popped)

\* the innermost call returns false: every caller returns false at once
\* (lines 108, 125, 140-141) and the constructor writes "error" and returns
ReturnFalse(mc) ==
    [mc EXCEPT !.calls = <<>>,
               !.ret = FALSE,
               !.cerr = IF mc.calls[1].fn = "Sudoku" THEN "error" ELSE @]

\* the guard taken with `return false`
already_off_fails(mc) == ReturnFalse(mc)

\* lines 115-117 taken: v is already off at k, return true
already_off(mc) == ReturnTrue(mc)

\* eliminate(k, v) is called: lines 115-117 return true at once when v is off
CallEliminate(mc, k, v) ==
    IF ~is_on(mc.cells[k], v)
    THEN Resume(mc)
    ELSE [mc EXCEPT !.calls = Append(@, Fr("eliminate", k, v, 0))]

\* lines 105-112
StepAssign(mc) ==
    LET f == TopCall(mc)
    IN  IF f.i > 9 THEN ReturnTrue(mc)
        ELSE IF f.i = f.v THEN Resume(mc)
        ELSE CallEliminate(mc, f.k, f.i)

\* lines 114-146
StepEliminate(mc) ==
    LET f == TopCall(mc)
    IN  IF f.at = "entry"
        THEN IF ~is_on(mc.cells[f.k], f.v) THEN already_off(mc)
             ELSE LET c1 == [mc.cells EXCEPT ![f.k] = Possible_eliminate(@, f.v)]
                      N == count(c1[f.k])
                      m1 == [mc EXCEPT !.cells = c1]
                  IN  IF N = 0 THEN ReturnFalse(m1)
                      ELSE IF N = 1
                           THEN SetTopCall(m1, [f EXCEPT !.at = "neighbors",
                                                         !.w = val(c1[f.k])])
                           ELSE SetTopCall(m1, [f EXCEPT !.at = "groups"])
        ELSE IF f.at = "neighbors"
        THEN IF f.i >= Len(_neighbors[f.k])
             THEN SetTopCall(mc, [f EXCEPT !.at = "groups", !.i = 0])
             ELSE CallEliminate(mc, _neighbors[f.k][f.i + 1], f.w)
        ELSE IF f.i >= Len(_groups_of[f.k]) THEN ReturnTrue(mc)
             ELSE LET x == _groups_of[f.k][f.i + 1]
                      on == {j \in 0..8 : is_on(mc.cells[_group[x][j + 1]], f.v)}
                      n == Cardinality(on)
                  IN  IF n = 0 THEN ReturnFalse(mc)
                      ELSE IF n = 1
                           THEN LET ks == _group[x][(CHOOSE j \in on : TRUE) + 1]
                                IN  [mc EXCEPT !.calls =
                                        Append(@, Fr("assign", ks, f.v, 1))]
                           ELSE Resume(mc)

\* lines 159-174; f.i is the 1-based position in s, f.k the cell.
\* A digit with k = 81 would write _cells[81]: out of bounds.
StepSudoku(mc) ==
    LET f == TopCall(mc)
    IN  IF f.i > Len(mc.s) THEN [mc EXCEPT !.calls = <<>>]
        ELSE IF IsDigitChar(mc.s[f.i])
             THEN IF f.k >= NumCells
                  THEN [mc EXCEPT !.calls = <<>>, !.oob = TRUE]
                  ELSE [mc EXCEPT !.calls =
                           Append(@, Fr("assign", f.k, CharValue(mc.s[f.i]), 1))]
             ELSE IF mc.s[f.i] = "0" \/ mc.s[f.i] = "."
                  THEN Resume(mc)
                  ELSE SetTopCall(mc, [f EXCEPT !.i = @ + 1])

Step(mc) ==
    LET fn == TopCall(mc).fn
    IN  IF fn = "assign" THEN StepAssign(mc)
        ELSE IF fn = "eliminate" THEN StepEliminate(mc)
        ELSE StepSudoku(mc)

\* up to 2^n steps of mc, stopping when the outermost call has returned
RECURSIVE Run(_, _)
Run(mc, n) ==
    IF Done(mc) THEN mc
    ELSE IF n = 0 THEN Step(mc)
    ELSE LET half == Run(mc, n - 1)
         IN  IF Done(half) THEN half ELSE Run(half, n - 1)

\* the call run to its return
assign(c, k, v) == Run(Machine(c, <<>>, <<Fr("assign", k, v, 1)>>), StepsLog)

eliminate(c, k, v) == Run(Machine(c, <<>>, <<Fr("eliminate", k, v, 0)>>), StepsLog)

Sudoku(s) == Run(Machine(FreshCells, s, <<Fr("Sudoku", 0, 0, 1)>>), StepsLog)

----------------------------------------------------------------------------
(* Sudoku::is_solved, Sudoku::least_count, Sudoku::possible *)

is_solved(c) == \A k \in DOMAIN c : count(c[k]) = 1

\* the loop body with `m <= min`: a later cell of equal count is taken
least_step_takes_later(c, st) ==
    LET n == count(c[st.i])
    IN  IF n > 1 /\ (st.k = NONE \/ n <= st.min)
        THEN [i |-> st.i + 1, k |-> st.i, min |-> n]
        ELSE [st EXCEPT !.i = @ + 1]

\* one iteration of the loop of least_count (lines 150-155); min is read
\* only once k # -1
least_step(c, st) ==
    LET n == count(c[st.i])
    IN  IF n > 1 /\ (st.k = NONE \/ n < st.min)
        THEN [i |-> st.i + 1, k |-> st.i, min |-> n]
        ELSE [st EXCEPT !.i = @ + 1]

\* up to 2^n iterations, stopping when i reaches _cells.size()
RECURSIVE least_loop(_, _, _)
least_loop(c, st, n) ==
    IF st.i >= NumCells THEN st
    ELSE IF n = 0 THEN least_step(c, st)
    ELSE LET half == least_loop(c, st, n - 1)
         IN  IF half.i >= NumCells THEN half ELSE least_loop(c, half, n - 1)

least_count(c) == least_loop(c, [i |-> 0, k |-> NONE, min |-> 0], ScanLog).k

possible(c, k) == c[k]

----------------------------------------------------------------------------
(* The puzzle lines main may read: a completed grid with up to MaxVar of   *)
(* its cells replaced by a blank or by a digit up to MaxDigit, and the     *)
(* completed grid itself, with and without a trailing carriage return.     *)

BaseGrid == [k \in Cells |->
               (((3 * ((k \div 9) % 3)) + ((k \div 9) \div 3) + (k % 9)) % 9) + 1]

VarCellSeq == <<80, 79, 1, 0, 40>>

VarCells == {VarCellSeq[n] : n \in 1..MaxVar}

VarChars == {"0", "."} \cup {DigitChars[d] : d \in 1..MaxDigit}

BaseLine == [i \in 1..NumCells |-> DigitChars[BaseGrid[i - 1]]]

PlainLines ==
    {[i \in 1..NumCells |-> IF (i - 1) \in VarCells THEN f[i - 1] ELSE BaseLine[i]]
     : f \in [VarCells -> VarChars]}

Lines == PlainLines \cup {BaseLine, Append(BaseLine, "\r")}

(* The puzzle strings the call-by-call runs construct from: Norvig's easy   *)
(* and hard examples, and the easy one with its last given repeated in      *)
(* its row.                                                                 *)

LineOf(ds) == [i \in 1..Len(ds) |-> IF ds[i] = 0 THEN "." ELSE DigitChars[ds[i]]]

Easy == LineOf(<<0,0,3,0,2,0,6,0,0,  9,0,0,3,0,5,0,0,1,  0,0,1,8,0,6,4,0,0,
                 0,0,8,1,0,2,9,0,0,  7,0,0,0,0,0,0,0,8,  0,0,6,7,0,8,2,0,0,
                 0,0,2,6,0,9,5,0,0,  8,0,0,2,0,3,0,0,9,  0,0,5,0,1,0,3,0,0>>)

Hard == LineOf(<<4,0,0,0,0,0,8,0,5,  0,3,0,0,0,0,0,0,0,  0,0,0,7,0,0,0,0,0,
                 0,2,0,0,0,0,0,6,0,  0,0,0,0,8,0,4,0,0,  0,0,0,0,1,0,0,0,0,
                 0,0,0,6,0,3,0,7,0,  5,0,0,2,0,0,0,0,0,  1,0,4,0,0,0,0,0,0>>)

Clash == [Easy EXCEPT ![81] = "3"]

PropLines == {Easy, Hard, Clash}

PropCells == {1, 40}

PropDigits == {1, 7, 8}

----------------------------------------------------------------------------
(* Heap of Sudoku objects *)

NewId == CHOOSE n \in 1..(Cardinality(DOMAIN heap) + 1) : n \notin DOMAIN heap

Free(h, ptr) == [q \in DOMAIN h \ {ptr} |-> h[q]]

Alloc(h, ptr, c) == [q \in DOMAIN h \cup {ptr} |-> IF q = ptr THEN c ELSE h[q]]

\* a copy of the pointer only: both names refer to one object
Clone_shares(h, ptr) == [heap |-> h, ptr |-> ptr]

\* new Sudoku(*S): the implicit copy constructor copies _cells into a new object
Clone(h, ptr) == [heap |-> Alloc(h, NewId, h[ptr]), ptr |-> NewId]

----------------------------------------------------------------------------
(* solve, one activation record per call *)

Frame(ptr) == [pc |-> "entry", S |-> ptr, k |-> NONE, p |-> {}, i |-> 1,
               S1 |-> NULL, S2 |-> NULL]

Top == stack[Len(stack)]

SetTop(f) == [stack EXCEPT ![Len(stack)] = f]

\* return ptr from the innermost call, its parameter S destroyed unless returned
Return(ptr) ==
    LET h == IF Top.S # NULL /\ Top.S # ptr THEN Free(heap, Top.S) ELSE heap
    IN  /\ heap' = h
        /\ IF Len(stack) = 1
           THEN /\ stack' = <<>>
                /\ S' = ptr
                /\ pc' = "timed"
           ELSE /\ stack' = [SubSeq(stack, 1, Len(stack) - 1)
                               EXCEPT ![Len(stack) - 1] =
                                   [@ EXCEPT !.pc = "back", !.S2 = ptr]]
                /\ UNCHANGED <<S, pc>>

\* lines 177-180
SolveEntry ==
    /\ pc = "solve" /\ Top.pc = "entry"
    /\ IF Top.S = NULL \/ is_solved(heap[Top.S])
       THEN Return(Top.S)
       ELSE /\ stack' = SetTop([Top EXCEPT !.pc = "select",
                                           !.k = least_count(heap[Top.S])])
            /\ UNCHANGED <<heap, S, pc>>
    /\ UNCHANGED <<topology, line, loop, cerr, propv>>

\* line 181: _cells[k] with k = -1 reads before the first element of the
\* vector: the run stops there, or a Possible with no bit on is read
SolvePossible ==
    /\ pc = "solve" /\ Top.pc = "select"
    /\ IF Top.k \in Cells
       THEN /\ stack' = SetTop([Top EXCEPT !.pc = "loop", !.i = 1,
                                           !.p = possible(heap[Top.S], Top.k)])
            /\ pc' = pc
       ELSE \E stops \in BOOLEAN :
               IF stops
               THEN /\ pc' = "undefined"
                    /\ stack' = stack
               ELSE /\ stack' = SetTop([Top EXCEPT !.pc = "loop", !.i = 1, !.p = {}])
                    /\ pc' = pc
    /\ UNCHANGED <<topology, line, loop, heap, S, cerr, propv>>

\* lines 182-184 and 192
SolveLoop ==
    /\ pc = "solve" /\ Top.pc = "loop"
    /\ IF Top.i > 9
       THEN Return(NULL)
       ELSE IF is_on(Top.p, Top.i)
            THEN /\ heap' = Clone(heap, Top.S).heap
                 /\ stack' = SetTop([Top EXCEPT !.pc = "cloned",
                                                !.S1 = Clone(heap, Top.S).ptr])
                 /\ UNCHANGED <<S, pc>>
            ELSE /\ stack' = SetTop([Top EXCEPT !.i = @ + 1])
                 /\ UNCHANGED <<heap, S, pc>>
    /\ UNCHANGED <<topology, line, loop, cerr, propv>>

\* lines 185-186: S1->assign(k, i), then solve(std::move(S1))
SolveAssign ==
    /\ pc = "solve" /\ Top.pc = "cloned"
    /\ LET r == assign(heap[Top.S1], Top.k, Top.i)
       IN  IF r.ret
           THEN /\ heap' = [heap EXCEPT ![Top.S1] = r.cells]
                /\ stack' = Append(SetTop([Top EXCEPT !.pc = "wait", !.S1 = NULL]),
                                   Frame(Top.S1))
           ELSE /\ heap' = Free(heap, Top.S1)
                /\ stack' = SetTop([Top EXCEPT !.pc = "loop", !.S1 = NULL,
                                               !.i = @ + 1])
    /\ UNCHANGED <<topology, pc, line, loop, S, cerr, propv>>

\* lines 186-189: the recursive call has returned S2
SolveBack ==
    /\ pc = "solve" /\ Top.pc = "back"
    /\ IF Top.S2 # NULL
       THEN Return(Top.S2)
       ELSE /\ stack' = SetTop([Top EXCEPT !.pc = "loop", !.i = @ + 1])
            /\ UNCHANGED <<heap, S, pc>>
    /\ UNCHANGED <<topology, line, loop, cerr, propv>>

----------------------------------------------------------------------------
(* main *)

\* getline(file_to_open, line) succeeds
MainGetline ==
    /\ pc = "getline"
    /\ \E l \in Lines : line' = l
    /\ loop' = 0
    /\ pc' = "while"
    /\ UNCHANGED <<topology, heap, stack, S, cerr, propv>>

\* getline fails at end of file: return 0
MainExit ==
    /\ pc = "getline"
    /\ pc' = "exit"
    /\ UNCHANGED <<topology, line, loop, heap, stack, S, cerr, propv>>

\* while (loop < 10): solve(unique_ptr<Sudoku>(new Sudoku(line))) is entered
MainSolve ==
    /\ pc = "while" /\ loop < NumRuns
    /\ LET r == Sudoku(line)
       IN  /\ cerr' = r.cerr
           /\ IF r.oob
              THEN /\ pc' = "undefined"
                   /\ UNCHANGED <<heap, stack>>
              ELSE /\ heap' = Alloc(heap, NewId, r.cells)
                   /\ stack' = <<Frame(NewId)>>
                   /\ pc' = "solve"
    /\ UNCHANGED <<topology, line, loop, S, propv>>

\* end of one timed run: loop += 1, S goes out of scope
MainTimed ==
    /\ pc = "timed"
    /\ heap' = IF S # NULL THEN Free(heap, S) ELSE heap
    /\ S' = NULL
    /\ loop' = loop + 1
    /\ pc' = "while"
    /\ UNCHANGED <<topology, line, stack, cerr, propv>>

\* loop = 10: the average is printed, next line
MainPrint ==
    /\ pc = "while" /\ loop >= NumRuns
    /\ pc' = "getline"
    /\ UNCHANGED <<topology, line, loop, heap, stack, S, cerr, propv>>

----------------------------------------------------------------------------
(* The class used call by call: a client that may call Sudoku::init(),     *)
(* constructs one object and calls its member functions, each call run     *)
(* step by step.                                                            *)

Called(fn, k, v) == [fn |-> fn, k |-> k, v |-> v, before |-> board.cells]

\* Sudoku::init()
PropInit ==
    /\ call.fn = ""
    /\ LET t == init(_group, _neighbors, _groups_of)
       IN  /\ _group' = t.group
           /\ _neighbors' = t.neighbors
           /\ _groups_of' = t.groups_of
    /\ call' = Called("init", 0, 0)
    /\ UNCHANGED <<mainv, board, ncalls>>

\* Sudoku(l) is called
PropSudoku ==
    /\ call.fn \in {"", "init"}
    /\ \E l \in PropLines :
          board' = Machine(FreshCells, l, <<Fr("Sudoku", 0, 0, 1)>>)
    /\ call' = Called("Sudoku", 0, 0)
    /\ UNCHANGED <<topology, mainv, ncalls>>

\* assign(k, v) is called on the constructed object
PropAssign ==
    /\ call.fn \notin {"", "init"} /\ Done(board) /\ ~board.oob
    /\ ncalls < MaxCalls
    /\ \E k \in PropCells, v \in PropDigits :
          /\ board' = [board EXCEPT !.calls = <<Fr("assign", k, v, 1)>>]
          /\ call' = Called("assign", k, v)
    /\ ncalls' = ncalls + 1
    /\ UNCHANGED <<topology, mainv>>

\* eliminate(k, v) is called on the constructed object
PropEliminate ==
    /\ call.fn \notin {"", "init"} /\ Done(board) /\ ~board.oob
    /\ ncalls < MaxCalls
    /\ \E k \in PropCells, v \in PropDigits :
          /\ board' = [board EXCEPT !.calls = <<Fr("eliminate", k, v, 0)>>]
          /\ call' = Called("eliminate", k, v)
    /\ ncalls' = ncalls + 1
    /\ UNCHANGED <<topology, mainv>>

\* the call in progress takes one step
PropStep ==
    /\ ~Done(board)
    /\ board' = Step(board)
    /\ UNCHANGED <<topology, mainv, call, ncalls>>

PropNext ==
    \/ PropInit
    \/ PropSudoku
    \/ PropAssign
    \/ PropEliminate
    \/ PropStep

----------------------------------------------------------------------------
(* main's loop run by a client of the class that may call Sudoku::init()   *)
(* before the first line is read, on a file of the published puzzles.      *)

\* Sudoku::init() before the first getline
ClientInit ==
    /\ pc = "getline" /\ line = <<>>
    /\ PropInit

\* getline(file_to_open, line) succeeds on the file of published puzzles
ClientGetline ==
    /\ pc = "getline"
    /\ \E l \in PropLines : line' = l
    /\ loop' = 0
    /\ pc' = "while"
    /\ UNCHANGED <<topology, heap, stack, S, cerr, propv>>

ClientNext ==
    \/ ClientInit
    \/ ClientGetline
    \/ MainExit
    \/ MainSolve
    \/ MainTimed
    \/ MainPrint
    \/ SolveEntry
    \/ SolvePossible
    \/ SolveLoop
    \/ SolveAssign
    \/ SolveBack

----------------------------------------------------------------------------

\* the statics as constructed at line 82; main runs without calling init
Init ==
    /\ _group = [x \in 0..(NumGroups - 1) |-> <<>>]
    /\ _neighbors = [k \in Cells |-> <<>>]
    /\ _groups_of = [k \in Cells |-> <<>>]
    /\ pc = "getline"
    /\ line = <<>>
    /\ loop = 0
    /\ heap = <<>>
    /\ stack = <<>>
    /\ S = NULL
    /\ cerr = ""
    /\ board = Machine(FreshCells, <<>>, <<>>)
    /\ call = [fn |-> "", k |-> 0, v |-> 0, before |-> FreshCells]
    /\ ncalls = 0

Next ==
    \/ MainGetline
    \/ MainExit
    \/ MainSolve
    \/ MainTimed
    \/ MainPrint
    \/ SolveEntry
    \/ SolvePossible
    \/ SolveLoop
    \/ SolveAssign
    \/ SolveBack

Spec == Init /\ [][Next]_vars

SpecProp == Init /\ [][PropNext]_vars

SpecClient == Init /\ [][ClientNext]_vars

\* a call in progress keeps running: the program is single-threaded
SpecPropFair == SpecProp /\ WF_vars(PropStep)

----------------------------------------------------------------------------
(* The vocabulary of the properties: rows, columns and boxes as sets of    *)
(* cells, independent of the tables init builds.                            *)

Row(k) == k \div 9

Col(k) == k % 9

Box(k) == (Row(k) \div 3) * 3 + (Col(k) \div 3)

Units == {{k \in Cells : Row(k) = r} : r \in 0..8}
         \cup {{k \in Cells : Col(k) = r} : r \in 0..8}
         \cup {{k \in Cells : Box(k) = r} : r \in 0..8}

Peers(k) == {j \in Cells \ {k} : Row(j) = Row(k) \/ Col(j) = Col(k) \/ Box(j) = Box(k)}

\* every row, column and box holds each digit in exactly one determined cell
EachDigitOnce(c) ==
    \A u \in Units : \A d \in Digits : Cardinality({k \in u : c[k] = {d}}) = 1

\* the tables as Sudoku::init() leaves them when called once
TopologyBuilt ==
    /\ \A x \in DOMAIN _group : Len(_group[x]) = 9
    /\ {{_group[x][j] : j \in 1..Len(_group[x])} : x \in DOMAIN _group} = Units
    /\ \A k \in Cells : Len(_groups_of[k]) = 3
    /\ \A k \in Cells : {_neighbors[k][j] : j \in 1..Len(_neighbors[k])} = Peers(k)

\* the givens of a puzzle string: cell -> digit, 0 for a blank
Givens(l) ==
    LET kept == SelectSeq(l, LAMBDA ch : IsDigitChar(ch) \/ ch = "0" \/ ch = ".")
    IN  [k \in Cells |-> IF k + 1 <= Len(kept) /\ IsDigitChar(kept[k + 1])
                         THEN CharValue(kept[k + 1]) ELSE 0]

\* the completed grids that agree with the givens of l
Completions(l) ==
    LET g == Givens(l)
        blanks == {k \in Cells : g[k] = 0}
    IN  {grid \in {[k \in Cells |-> IF g[k] = 0 THEN f[k] ELSE g[k]]
                   : f \in [blanks -> Digits]}
         : \A u \in Units : {grid[k] : k \in u} = Digits}

\* naked singles and hidden singles are all propagated in c
Fixpoint(c) ==
    /\ \A k \in Cells : Cardinality(c[k]) = 1 =>
          \A j \in Peers(k) : c[j] \cap c[k] = {}
    /\ \A u \in Units : \A d \in Digits :
          LET has == {k \in u : d \in c[k]}
          IN  /\ has # {}
              /\ Cardinality(has) = 1 => \A k \in has : c[k] = {d}

SumCounts(c) == LET RECURSIVE upto(_)
                    upto(k) == IF k < 0 THEN 0 ELSE Cardinality(c[k]) + upto(k - 1)
                IN  upto(NumCells - 1)

----------------------------------------------------------------------------
(* Properties of main and solve *)

\* C1: a Board that solve returns to main has each digit 1..9 exactly once
\* in every row, every column and every 3x3 box.
C1_SolvedBoardIsValid ==
    (pc = "timed" /\ S # NULL) => EachDigitOnce(heap[S])

\* C2: when the givens of the line admit exactly one completed grid, solve
\* returns a Board whose 81 cells are exactly that grid, never none.
C2_UniquePuzzleSolved ==
    (pc = "timed" /\ Cardinality(Completions(line)) = 1) =>
        /\ S # NULL
        /\ \A g \in Completions(line) : \A k \in Cells : heap[S][k] = {g[k]}

\* C3: when the givens of the line admit no completed grid,
\* solve(Sudoku(line)) returns none and reaches no other outcome.
C3_UnsatReturnsNone ==
    (pc \in {"timed", "undefined"} /\ Completions(line) = {}) =>
        (pc = "timed" /\ S = NULL)

\* C4: the 27 groups, the 3 group ids of each cell and each cell's peers are
\* in place before the first Board is constructed, so every assign and
\* eliminate runs against 27 groups of 9 cells.
C4_TopologyBeforeBoards ==
    pc \in {"solve", "timed", "undefined"} => TopologyBuilt

\* C5: no step of solve changes the Board of a call in progress: the
\* parent's 81 candidate sets stay as they were while a clone is made,
\* assigned to and solved.
C5_ParentUnchanged ==
    [][\A j \in 1..Len(stack) :
          j <= Len(stack') =>
              /\ stack[j].S \in DOMAIN heap'
              /\ heap'[stack[j].S] = heap[stack[j].S]]_vars

\* with the tables built, a call of solve has a failed branch behind it and
\* holds a fresh clone for a later candidate digit
C5_Witness ==
    /\ TopologyBuilt
    /\ \E j \in 1..Len(stack) :
          /\ stack[j].pc = "cloned"
          /\ stack[j].i > val(stack[j].p)
          /\ heap[stack[j].S1] = heap[stack[j].S]

C9_FixpointAfterAssigns ==
    (pc = "solve" /\ cerr = "") => \A ptr \in DOMAIN heap : Fixpoint(heap[ptr])

----------------------------------------------------------------------------
(* Properties of the member functions, call by call *)

\* C6: eliminate(cell, d) called again right after eliminate(cell, d) has
\* returned leaves all 81 candidate sets as the first call left them and
\* returns true.
C6_EliminateIdempotent ==
    (call.fn = "eliminate" /\ Done(board)) =>
        LET again == eliminate(board.cells, call.k, call.v)
        IN  /\ Done(again)
            /\ again.ret = TRUE
            /\ again.cells = board.cells

\* a first eliminate call has turned its digit off and propagated or failed
C6_Witness ==
    /\ call.fn = "eliminate" /\ Done(board)
    /\ TopologyBuilt
    /\ is_on(call.before[call.k], call.v)
    /\ SumCounts(board.cells) < SumCounts(call.before) - 1

\* C7: least_count returns the lowest index among the cells whose count is
\* the smallest count above 1, and -1 exactly when no cell has a count above 1.
C7_LeastCount ==
    LET c == board.cells
        open == {k \in Cells : count(c[k]) > 1}
        least == {k \in open : \A j \in open : count(c[k]) <= count(c[j])}
        r == least_count(c)
    IN  /\ r = NONE <=> open = {}
        /\ open # {} => r \in least /\ \A j \in least : r <= j

\* least_count passes over an open cell with more candidates and breaks a tie
C7_Witness ==
    LET c == board.cells
        r == least_count(c)
    IN  /\ r # NONE
        /\ \E j \in 0..(r - 1) : count(c[j]) > count(c[r])
        /\ \E j \in (r + 1)..(NumCells - 1) : count(c[j]) = count(c[r])

\* least_count returns -1 on a Board with an empty cell
C7_WitnessNone ==
    /\ least_count(board.cells) = NONE
    /\ \E k \in Cells : count(board.cells[k]) = 0

\* a step of the call in progress that runs line 118 on a digit that is on
TurnsOff ==
    /\ ~Done(board)
    /\ TopCall(board).fn = "eliminate"
    /\ TopCall(board).at = "entry"
    /\ is_on(board.cells[TopCall(board).k], TopCall(board).v)

\* C10: every assign or eliminate call returns; each step that turns a digit
\* off lowers the sum of the 81 counts, and no step turns a digit on.
C10_Terminates ==
    /\ [][PropStep =>
            /\ \A k \in Cells : board'.cells[k] \subseteq board.cells[k]
            /\ TurnsOff => SumCounts(board'.cells) < SumCounts(board.cells)]_vars
    /\ (~Done(board) ~> Done(board))

\* an assign call has returned true after turning off digits in other cells
C10_Witness ==
    /\ call.fn = "assign" /\ Done(board) /\ board.ret
    /\ SumCounts(board.cells) < SumCounts(call.before) - 8

\* With the tables built by init, the Board between the constructor's assign
\* calls, and after a later assign that returned true, is at the fixpoint.
FixpointWhenBuilt ==
    (/\ TopologyBuilt
     /\ board.cerr = "" /\ board.ret
     /\ call.fn \in {"Sudoku", "assign"}
     /\ Done(board) \/ TopCall(board).fn = "Sudoku") => Fixpoint(board.cells)

====
